---- MODULE Spec2Model ----
(***************************************************************************)
(* Quartiles solver (src/tiles.py): tile acquisition, dictionary loading,  *)
(* the combination search, the organizer and the presenter, as one state   *)
(* machine over the steps of main(), plus two specifications that apply    *)
(* the pure functions find_combinations and classify_word to bounded       *)
(* inputs.                                                                 *)
(*                                                                         *)
(* A Python str is a sequence of one-character strings: "ma" is            *)
(* <<"m", "a">>.  A tuple or list is a sequence, a set is a set.           *)
(***************************************************************************)
EXTENDS Integers, Sequences, FiniteSets, TLC

VARIABLES
  pc,                \* position in main(): start, load, search, present, summary, done,
                     \* exit; or call, return when a pure function is applied alone
  args,              \* argparse namespace: tiles, image_path, min_length
  env,               \* what the run finds outside: the image file, tesseract's output
  fs,                \* the dictionary file: cached or not, download and open outcomes, lines
  source,            \* which branch of main() set tiles: "manual", "image", "default"
  tiles,             \* main(): tiles
  all_words,         \* main(): all_words
  valid_words,       \* main(): valid_words
  organized,         \* main(): organized, 1..4 -> list of (tiles_combo, word, tags)
  num_tiles,         \* main(): loop variable of the presentation loop
  display,           \* per group: the entries printed, in printed order
  counts,            \* per group: the "Count: n (q may need review)" line, or <<>>
  total_found,       \* main(): total_found
  questionable_count,\* main(): questionable_count
  summary,           \* the SUMMARY block printed, or <<>>
  err,               \* the error message that ended the run, or ""
  exit_status,       \* process exit status, -1 while running
  fc_tiles,          \* find_combinations applied alone: argument tiles
  fc_max_length,     \* find_combinations applied alone: argument max_length
  fc_results,        \* find_combinations applied alone: return value
  cw_word,           \* classify_word applied alone: argument word
  cw_tags            \* classify_word applied alone: return value

vars == <<pc, args, env, fs, source, tiles, all_words, valid_words, organized,
          num_tiles, display, counts, total_found, questionable_count, summary,
          err, exit_status, fc_tiles, fc_max_length, fc_results, cw_word, cw_tags>>

(***************************************************************************)
(* Bounds of the model.                                                    *)
(***************************************************************************)
MaxTiles == 3        \* most --tiles arguments of a run
MaxRows == 2         \* most data rows of tesseract's TSV output
MaxGenTiles == 3     \* most tiles given to find_combinations applied alone
MaxGenLength == 5    \* largest max_length given to find_combinations applied alone
MaxWordLen == 4      \* longest word given to classify_word applied alone

(***************************************************************************)
(* Python str primitives.                                                  *)
(***************************************************************************)
Range(s) == {s[i] : i \in 1..Len(s)}

RECURSIVE Flatten(_, _, _)
\* The concatenation seqs[lo] \o ... \o seqs[hi].
Flatten(seqs, lo, hi) ==
  IF lo > hi THEN <<>>
  ELSE IF lo = hi THEN seqs[lo]
  ELSE LET mid == (lo + hi) \div 2
       IN Flatten(seqs, lo, mid) \o Flatten(seqs, mid + 1, hi)

ascii_lowercase ==
  <<"a","b","c","d","e","f","g","h","i","j","k","l","m",
    "n","o","p","q","r","s","t","u","v","w","x","y","z">>
ascii_uppercase ==
  <<"A","B","C","D","E","F","G","H","I","J","K","L","M",
    "N","O","P","Q","R","S","T","U","V","W","X","Y","Z">>
\* The characters of the model in code point order: space, a digit, A-Z, a-z.
CodePoints == <<" ", "1">> \o ascii_uppercase \o ascii_lowercase
Chars == Range(CodePoints)

IndexOf(s, c) == CHOOSE i \in 1..Len(s) : s[i] = c
ord == [c \in Chars |-> IndexOf(CodePoints, c)]

c_isupper(c) == c \in Range(ascii_uppercase)
c_islower(c) == c \in Range(ascii_lowercase)
c_isalpha(c) == c_isupper(c) \/ c_islower(c)
c_isspace(c) == c = " "
c_lower(c) == IF c_isupper(c) THEN ascii_lowercase[IndexOf(ascii_uppercase, c)] ELSE c

\* str.isalpha(): non-empty and every character alphabetic.
isalpha(s) == Len(s) > 0 /\ \A i \in 1..Len(s) : c_isalpha(s[i])
\* str.lower()
lower(s) == [i \in 1..Len(s) |-> c_lower(s[i])]
\* str.strip(): leading and trailing whitespace removed.
strip(s) ==
  LET keep == {i \in 1..Len(s) : ~c_isspace(s[i])}
  IN IF keep = {} THEN <<>>
     ELSE LET lo == CHOOSE i \in keep : \A j \in keep : i <= j
              hi == CHOOSE i \in keep : \A j \in keep : j <= i
          IN SubSeq(s, lo, hi)
\* ''.join(parts)
join(parts) == Flatten(parts, 1, Len(parts))
\* Python's s < t on str: lexicographic by code point, a proper prefix first.
str_lt(s, t) ==
  \E k \in 1..(Len(t)) :
    /\ \A i \in 1..(k - 1) : i <= Len(s) /\ s[i] = t[i]
    /\ \/ (k = Len(s) + 1)
       \/ (k <= Len(s) /\ ord[s[k]] < ord[t[k]])

(***************************************************************************)
(* Program constants.                                                      *)
(***************************************************************************)

DEFAULT_TILES ==
  << <<"f","a","r">>, <<"c","i">>, <<"c","a">>, <<"l","l","y">>, <<"r","e","c">>,
     <<"e","p">>, <<"t","a","c">>, <<"l","e","s">>, <<"c","a","p">>, <<"i","t","u">>,
     <<"l","a">>, <<"t","e">>, <<"j","o","u">>, <<"r","n">>, <<"a","l">>,
     <<"i","n","g">>, <<"a","f","t">>, <<"e","r">>, <<"t","h","o">>,
     <<"u","g","h","t">> >>

\* classify_word: the letters counted as consonants.
CONSONANTS ==
  {"b","c","d","f","g","h","j","k","l","m","n","p","q","r","s","t","v","w","x","y","z"}

\* filter_words: the profanity blocklist.
profanity ==
  { <<"f","u","c","k">>, <<"s","h","i","t">>, <<"b","i","t","c","h">>,
    <<"d","i","c","k">>, <<"p","i","s","s">>, <<"c","o","c","k">>,
    <<"c","u","n","t">>, <<"t","w","a","t">>, <<"a","s","s">>,
    <<"d","a","m","n">>, <<"h","e","l","l">> }

ABBREVIATION_MAX_LEN == 3     \* classify_word: len(word) <= 3
MIN_DICT_WORD_LEN == 2        \* load_dictionary: len(word.strip()) >= 2
CONF_THRESHOLD == 70          \* extract_tiles_from_image: conf < 70
MIN_TILE_LEN == 2             \* extract_tiles_from_image: len(cleaned) >= 2
DEFAULT_MAX_LENGTH == 4       \* find_combinations: max_length = 4
DEFAULT_MIN_LENGTH == 2       \* --min-length default

(***************************************************************************)
(* load_dictionary                                                         *)
(***************************************************************************)
\* The lexicon read from the file's lines.
read_words(lines) ==
  {lower(strip(word)) : word \in {w \in lines : Len(strip(w)) >= MIN_DICT_WORD_LEN}}

\* [raised |-> an exception left the function, words |-> the set returned]
load_dictionary(f) ==
  IF ~f.cached /\ f.download = "fail"
    THEN [raised |-> FALSE, words |-> {}]
  ELSE IF f.open = "FileNotFoundError"
    THEN [raised |-> FALSE, words |-> {}]
  ELSE IF f.open = "PermissionError"
    THEN [raised |-> TRUE, words |-> {}]
  ELSE [raised |-> FALSE, words |-> read_words(f.lines)]

(***************************************************************************)
(* classify_word, filter_words                                             *)
(***************************************************************************)
\* classify_word with len(word) < 3.
classify_word_short(word) ==
  IF Len(word) < ABBREVIATION_MAX_LEN /\ \A i \in 1..Len(word) : word[i] \in CONSONANTS
    THEN << "abbreviation" >>
    ELSE << >>

classify_word(word) ==
  IF Len(word) <= ABBREVIATION_MAX_LEN /\ \A i \in 1..Len(word) : word[i] \in CONSONANTS
    THEN << "abbreviation" >>
    ELSE << >>

\* filter_words without the blocklist.
filter_words_keep_profanity(words) == {word \in words : isalpha(word)}

filter_words(words) == {word \in words : isalpha(word) /\ word \notin profanity}

(***************************************************************************)
(* extract_tiles_from_image                                                *)
(***************************************************************************)
\* float(conf_str) on the confidence strings of the model; ok = FALSE is ValueError.
float(conf_str) ==
  CASE conf_str = "-1" -> [ok |-> TRUE, value |-> 0 - 1]
    [] conf_str = "69" -> [ok |-> TRUE, value |-> 69]
    [] conf_str = "70" -> [ok |-> TRUE, value |-> 70]
    [] conf_str = "96" -> [ok |-> TRUE, value |-> 96]
    [] OTHER -> [ok |-> FALSE, value |-> 0]

\* ''.join(filter(str.isalpha, text)).lower()
cleaned(text) == lower(SelectSeq(text, c_isalpha))

\* Whether the loop body reaches tiles.append for this row.
row_accepted(row) ==
  /\ ~row.short
  /\ strip(row.text) # <<>>
  /\ row.conf_str # "-1"
  /\ float(row.conf_str).ok
  /\ ~(float(row.conf_str).value < CONF_THRESHOLD)
  /\ ~(\E i \in 1..Len(row.text) : c_isupper(row.text[i]))
  /\ Len(cleaned(row.text)) >= MIN_TILE_LEN

extract_tiles_from_image(e) ==
  IF e.tesseract # "ok" THEN <<>>
  ELSE IF ~e.header_ok THEN <<>>
  ELSE LET kept == SelectSeq(e.rows, row_accepted)
       IN [i \in 1..Len(kept) |-> cleaned(kept[i].text)]

(***************************************************************************)
(* find_combinations                                                       *)
(***************************************************************************)
Remove(s, i) == [j \in 1..(Len(s) - 1) |-> IF j < i THEN s[j] ELSE s[j + 1]]

RECURSIVE permutations(_, _)
\* itertools.permutations(pool, r): the r-length orderings of distinct positions of
\* pool, in lexicographic order of the position tuples; none when r > len(pool).
permutations(pool, r) ==
  IF r = 0 THEN << <<>> >>
  ELSE LET parts == [i \in 1..Len(pool) |->
                       LET rest == permutations(Remove(pool, i), r - 1)
                       IN [k \in 1..Len(rest) |-> <<pool[i]>> \o rest[k]]]
       IN Flatten(parts, 1, Len(parts))

\* find_combinations with range(1, max_length).
find_combinations_range_short(tls, max_length) ==
  LET parts == [r \in 1..(max_length - 1) |->
                  LET combos == permutations(tls, r)
                  IN [k \in 1..Len(combos) |-> <<combos[k], join(combos[k])>>]]
  IN Flatten(parts, 1, max_length - 1)

\* The list of (combo, word) pairs.
find_combinations(tls, max_length) ==
  LET parts == [r \in 1..max_length |->
                  LET combos == permutations(tls, r)
                  IN [k \in 1..Len(combos) |-> <<combos[k], join(combos[k])>>]]
  IN Flatten(parts, 1, max_length)

(***************************************************************************)
(* main(): tile acquisition                                                *)
(***************************************************************************)
\* t.strip() alone.
normalize_tile_strip_only(t) == strip(t)

\* t.lower().strip()
normalize_tile(t) == strip(lower(t))

manual_tiles(arg_tiles) == [i \in 1..Len(arg_tiles) |-> normalize_tile(arg_tiles[i])]

(***************************************************************************)
(* main(): the organizer                                                   *)
(***************************************************************************)
\* Lines 191-193 without the length test.
accepts_any_length(word, valid, min_length) == word \in valid

\* Lines 191-193: the candidate is neither too short nor outside the lexicon.
accepts(word, valid, min_length) == ~(Len(word) < min_length) /\ word \in valid

\* main() going on without a dictionary.
dictionary_never_missing(words) == FALSE

\* Line 176: not all_words
dictionary_missing(words) == words = {}

\* organized when a word were kept for its smallest size only.
organize_smallest_size_only(all_combinations, valid, min_length) ==
  LET kept == SelectSeq(all_combinations, LAMBDA c : accepts(c[2], valid, min_length))
  IN [n \in 1..DEFAULT_MAX_LENGTH |->
        LET of_size == SelectSeq(kept,
                         LAMBDA c : /\ Len(c[1]) = n
                                    /\ ~\E k \in 1..Len(kept) :
                                          kept[k][2] = c[2] /\ Len(kept[k][1]) < n)
        IN [k \in 1..Len(of_size) |->
              <<of_size[k][1], of_size[k][2], classify_word(of_size[k][2])>>]]

\* Lines 188-195: organized, from the candidates in their order.
organize(all_combinations, valid, min_length) ==
  [n \in 1..DEFAULT_MAX_LENGTH |->
     LET kept == SelectSeq(all_combinations,
                           LAMBDA c : Len(c[1]) = n /\ accepts(c[2], valid, min_length))
     IN [k \in 1..Len(kept) |-> <<kept[k][1], kept[k][2], classify_word(kept[k][2])>>]]

RECURSIVE unique_entries_keep_last(_)
\* unique_entries with the test of line 206 left out: the last grouping stays.
unique_entries_keep_last(entries) ==
  IF entries = <<>> THEN <<>>
  ELSE LET n == Len(entries)
           before == unique_entries_keep_last(SubSeq(entries, 1, n - 1))
           e == entries[n]
       IN IF \E i \in 1..Len(before) : before[i][2] = e[2]
            THEN [i \in 1..Len(before) |->
                    IF before[i][2] = e[2] THEN e ELSE before[i]]
            ELSE Append(before, e)

RECURSIVE unique_entries(_)
\* Lines 204-207: the dict unique_entries as its items in insertion order, each
\* (tiles_combo, word, tags); a word already present keeps its first value.
unique_entries(entries) ==
  IF entries = <<>> THEN <<>>
  ELSE LET n == Len(entries)
           before == unique_entries(SubSeq(entries, 1, n - 1))
           e == entries[n]
       IN IF \E i \in 1..Len(before) : before[i][2] = e[2]
            THEN before
            ELSE Append(before, e)

\* The sort key w alone.
key_lt_word_only(a, b) == str_lt(a[2], b[2])

\* Lines 209-210: the sort key (len(tags) > 0, w) of entry a is below that of b.
key_lt(a, b) ==
  LET fa == Len(a[3]) > 0
      fb == Len(b[3]) > 0
  IN \/ (~fa /\ fb)
     \/ (fa = fb /\ str_lt(a[2], b[2]))

RECURSIVE sorted(_)
\* sorted(..., key=...): stable, ascending by key.
sorted(entries) ==
  IF entries = <<>> THEN <<>>
  ELSE LET n == Len(entries)
           before == sorted(SubSeq(entries, 1, n - 1))
           e == entries[n]
           \* e goes after every element whose key is not above its own
           at == Cardinality({i \in 1..Len(before) : ~key_lt(e, before[i])})
       IN SubSeq(before, 1, at) \o <<e>> \o SubSeq(before, at + 1, Len(before))

\* Line 226: the group's "may need review" number.
questionable(unique) == Cardinality({i \in 1..Len(unique) : Len(unique[i][3]) > 0})

\* total_found counting the organizer's entries.
found_with_repeats(entries, unique) == Len(entries)

\* Line 225: what the group adds to total_found.
found(entries, unique) == Len(unique)

(***************************************************************************)
(* Inputs of a run.                                                        *)
(***************************************************************************)
RECURSIVE SeqsUpTo(_, _)
\* The sequences over S of length 0..n.
SeqsUpTo(S, n) ==
  IF n = 0 THEN {<<>>}
  ELSE LET shorter == SeqsUpTo(S, n - 1)
       IN shorter \cup {Append(q, x) : q \in {t \in shorter : Len(t) = n - 1}, x \in S}

\* --tiles arguments as typed: "a", "m", " MA", "hm", "ass", "m1".
ArgPool ==
  { <<"a">>, <<"m">>, <<" ","M","A">>, <<"h","m">>, <<"a","s","s">>, <<"m","1">> }
ArgLists == SeqsUpTo(ArgPool, MaxTiles) \ {<<>>}

\* --min-length values.
MinLengths == {DEFAULT_MIN_LENGTH, DEFAULT_MIN_LENGTH + 1}

\* Word lines of the dictionary file: "MA", "MAMA ", "HM", "ASS".
WordLines ==
  { <<"M","A">>, <<"M","A","M","A"," ">>, <<"H","M">>, <<"A","S","S">> }
\* Lines that are no words: "m1", "A".
JunkLines == { <<"m","1">>, <<"A">> }
DictLines == WordLines \cup JunkLines
\* Lines of a dictionary for the demo tiles: "JOURNAL", "REC", "CAP", "LA", "AL",
\* "THO", "RN", "LLY", "LATE", "CAPITULATE", "HELL", "A".
DemoLines ==
  { <<"J","O","U","R","N","A","L">>, <<"R","E","C">>, <<"C","A","P">>, <<"L","A">>,
    <<"A","L">>, <<"T","H","O">>, <<"R","N">>, <<"L","L","Y">>, <<"L","A","T","E">>,
    <<"C","A","P","I","T","U","L","A","T","E">>, <<"H","E","L","L">>, <<"A">> }

CachedFile(lines) ==
  [cached |-> TRUE, download |-> "none", open |-> "ok", lines |-> lines]
DownloadedFile(lines) ==
  [cached |-> FALSE, download |-> "ok", open |-> "ok", lines |-> lines]
\* The dictionary cannot be had: the download fails, the file is gone when opened,
\* the file cannot be opened.
BrokenFiles ==
  { [cached |-> FALSE, download |-> "fail", open |-> "ok", lines |-> {}],
    [cached |-> TRUE, download |-> "none", open |-> "FileNotFoundError", lines |-> {}],
    [cached |-> TRUE, download |-> "none", open |-> "PermissionError", lines |-> {}] }
ManualFiles ==
  {CachedFile(lines \cup JunkLines) : lines \in SUBSET WordLines}
     \cup {CachedFile({}), DownloadedFile(DictLines)} \cup BrokenFiles
DemoFiles == {CachedFile(DemoLines)}
ImageFiles == {CachedFile(DictLines), DownloadedFile({})}

\* Rows of tesseract's TSV output below the header.
Row(conf_str, text) == [short |-> FALSE, conf_str |-> conf_str, text |-> text]
RowPool ==
  { Row("96", <<"m","a">>),            \* kept: "ma"
    Row("70", <<"h","m">>),            \* kept, at the threshold: "hm"
    Row("96", <<"m","1","a"," ">>),    \* kept, cleaned to "ma"
    Row("69", <<"a","s","s">>),        \* confidence below the threshold
    Row("96", <<"M","a">>),            \* holds an uppercase letter
    Row("96", <<"m","1">>),            \* cleaned to one letter
    Row("-1", <<"a","m">>),            \* no confidence
    Row("n/a", <<"a","m">>),           \* confidence is no number
    Row("96", <<" ">>),                \* blank text
    [short |-> TRUE, conf_str |-> "", text |-> <<>>] }   \* too few columns
NoImage == [image_exists |-> FALSE, tesseract |-> "none", header_ok |-> FALSE, rows |-> <<>>]
ImageEnvs ==
  { [image_exists |-> TRUE, tesseract |-> "ok", header_ok |-> TRUE, rows |-> rows] :
      rows \in SeqsUpTo(RowPool, MaxRows) }
  \cup { [image_exists |-> FALSE, tesseract |-> "none", header_ok |-> FALSE, rows |-> <<>>],
         [image_exists |-> TRUE, tesseract |-> "CalledProcessError", header_ok |-> FALSE,
          rows |-> <<>>],
         [image_exists |-> TRUE, tesseract |-> "FileNotFoundError", header_ok |-> FALSE,
          rows |-> <<>>],
         [image_exists |-> TRUE, tesseract |-> "ok", header_ok |-> FALSE, rows |-> <<>>] }

Arguments(arg_tiles, image_path, min_length) ==
  [tiles |-> arg_tiles, image_path |-> image_path, min_length |-> min_length]

\* The runs of the model: the command line, the image and OCR, the dictionary file.
ManualRuns ==
  { [args |-> Arguments(t, "", DEFAULT_MIN_LENGTH), env |-> NoImage, fs |-> f] :
      t \in ArgLists, f \in ManualFiles }
  \cup { [args |-> Arguments(t, "", m), env |-> NoImage, fs |-> CachedFile(DictLines)] :
           t \in ArgLists, m \in MinLengths }
  \cup { [args |-> Arguments(t, "puzzle.png", DEFAULT_MIN_LENGTH), env |-> e,
          fs |-> CachedFile(DictLines)] :
           t \in {q \in ArgLists : Len(q) = 1}, e \in {v \in ImageEnvs : Len(v.rows) = 1} }
ImageRuns ==
  { [args |-> Arguments(<<>>, "puzzle.png", DEFAULT_MIN_LENGTH), env |-> e, fs |-> f] :
      e \in ImageEnvs, f \in ImageFiles }
DemoRuns ==
  { [args |-> Arguments(<<>>, "", m), env |-> NoImage, fs |-> f] :
      m \in MinLengths, f \in DemoFiles \cup BrokenFiles }
\* The run of tiles "la", "la" with a dictionary holding "LALA".
RepeatedTileRuns ==
  { [args |-> Arguments(<< <<"l","a">>, <<"l","a">> >>, "", DEFAULT_MIN_LENGTH),
     env |-> NoImage, fs |-> CachedFile({ <<"L","A","L","A">> })] }
Runs == ManualRuns \cup ImageRuns \cup DemoRuns \cup RepeatedTileRuns

NoGroups == [n \in 1..DEFAULT_MAX_LENGTH |-> <<>>]

(***************************************************************************)
(* main()                                                                  *)
(***************************************************************************)
PureIdle ==
  /\ fc_tiles = <<>> /\ fc_max_length = DEFAULT_MAX_LENGTH /\ fc_results = <<>>
  /\ cw_word = <<>> /\ cw_tags = <<>>

MainIdle ==
  /\ args = Arguments(<<>>, "", DEFAULT_MIN_LENGTH) /\ env = NoImage
  /\ fs = CachedFile({})
  /\ source = "" /\ tiles = <<>> /\ all_words = {} /\ valid_words = {}
  /\ organized = NoGroups /\ num_tiles = 0 /\ display = NoGroups /\ counts = NoGroups
  /\ total_found = 0 /\ questionable_count = 0 /\ summary = <<>>
  /\ err = "" /\ exit_status = 0 - 1

Init ==
  /\ pc = "start"
  /\ \E run \in Runs : args = run.args /\ env = run.env /\ fs = run.fs
  /\ source = "" /\ tiles = <<>> /\ all_words = {} /\ valid_words = {}
  /\ organized = NoGroups /\ num_tiles = 0 /\ display = NoGroups /\ counts = NoGroups
  /\ total_found = 0 /\ questionable_count = 0 /\ summary = <<>>
  /\ err = "" /\ exit_status = 0 - 1
  /\ PureIdle

pure_vars == <<fc_tiles, fc_max_length, fc_results, cw_word, cw_tags>>
input_vars == <<args, env, fs>>
result_vars == <<organized, num_tiles, display, counts, total_found,
                 questionable_count, summary>>

\* sys.exit(1) after printing message.
Exit(message) == pc' = "exit" /\ err' = message /\ exit_status' = 1

\* Lines 148-154: --tiles given.
AcquireManual ==
  /\ pc = "start"
  /\ args.tiles # <<>>
  /\ tiles' = manual_tiles(args.tiles)
  /\ source' = "manual"
  /\ pc' = "load"
  /\ UNCHANGED <<err, exit_status, all_words, valid_words>>
  /\ UNCHANGED <<input_vars, result_vars, pure_vars>>

\* Lines 155-169: an image path and no --tiles.
AcquireImage ==
  /\ pc = "start"
  /\ args.tiles = <<>>
  /\ args.image_path # ""
  /\ IF ~env.image_exists
       THEN Exit("Error: File not found.") /\ UNCHANGED <<tiles, source>>
       ELSE LET extracted == extract_tiles_from_image(env)
            IN IF extracted = <<>>
                 THEN /\ Exit("Error: No tiles found in the image or OCR failed.")
                      /\ tiles' = extracted
                      /\ source' = "image"
                 ELSE /\ tiles' = extracted
                      /\ source' = "image"
                      /\ pc' = "load"
                      /\ UNCHANGED <<err, exit_status>>
  /\ UNCHANGED <<all_words, valid_words>>
  /\ UNCHANGED <<input_vars, result_vars, pure_vars>>

\* Lines 170-172: neither.
AcquireDefault ==
  /\ pc = "start"
  /\ args.tiles = <<>>
  /\ args.image_path = ""
  /\ tiles' = DEFAULT_TILES
  /\ source' = "default"
  /\ pc' = "load"
  /\ UNCHANGED <<err, exit_status, all_words, valid_words>>
  /\ UNCHANGED <<input_vars, result_vars, pure_vars>>

\* Lines 174-178: the dictionary is loaded, and the run ends without one.  An
\* exception load_dictionary does not catch ends the run with status 1 as well.
LoadDictionary ==
  /\ pc = "load"
  /\ LET loaded == load_dictionary(fs)
     IN IF loaded.raised
          THEN Exit("Traceback (most recent call last)") /\ UNCHANGED all_words
          ELSE /\ all_words' = loaded.words
               /\ IF dictionary_missing(loaded.words)
                    THEN Exit("Error: Could not load TWL06 dictionary. Exiting.")
                    ELSE pc' = "search" /\ UNCHANGED <<err, exit_status>>
  /\ UNCHANGED <<tiles, source, valid_words>>
  /\ UNCHANGED <<input_vars, result_vars, pure_vars>>

\* Lines 180-198: the lexicon is filtered, the candidates are generated and organized.
Search ==
  /\ pc = "search"
  /\ valid_words' = filter_words(all_words)
  /\ organized' = organize(find_combinations(tiles, DEFAULT_MAX_LENGTH),
                           filter_words(all_words), args.min_length)
  /\ total_found' = 0
  /\ questionable_count' = 0
  /\ num_tiles' = 1
  /\ pc' = "present"
  /\ UNCHANGED <<tiles, source, all_words, display, counts, summary, err, exit_status>>
  /\ UNCHANGED <<input_vars, pure_vars>>

\* After the body of the loop of line 200 for num_tiles.
NextGroup ==
  /\ num_tiles' = num_tiles + 1
  /\ pc' = IF num_tiles = DEFAULT_MAX_LENGTH THEN "summary" ELSE "present"

\* Lines 200-227, a group with entries: deduplicated, sorted, printed, counted.
PresentGroup ==
  /\ pc = "present"
  /\ organized[num_tiles] # <<>>
  /\ LET unique == unique_entries(organized[num_tiles])
         sorted_words == sorted(unique)
         tagged == {i \in 1..Len(sorted_words) : sorted_words[i][3] # <<>>}
     IN /\ display' = [display EXCEPT ![num_tiles] = sorted_words]
        /\ questionable_count' = questionable_count + Cardinality(tagged)
        /\ total_found' = total_found + found(organized[num_tiles], unique)
        /\ counts' = [counts EXCEPT ![num_tiles] = <<Len(unique), questionable(unique)>>]
  /\ NextGroup
  /\ UNCHANGED <<tiles, source, all_words, valid_words, organized, summary, err,
                 exit_status>>
  /\ UNCHANGED <<input_vars, pure_vars>>

\* Lines 200-201, a group without entries: nothing is printed.
SkipGroup ==
  /\ pc = "present"
  /\ organized[num_tiles] = <<>>
  /\ NextGroup
  /\ UNCHANGED <<tiles, source, all_words, valid_words, organized, display, counts,
                 total_found, questionable_count, summary, err, exit_status>>
  /\ UNCHANGED <<input_vars, pure_vars>>

\* Lines 229-237: the summary; main() returns.
Summary ==
  /\ pc = "summary"
  /\ summary' = << [total |-> total_found,
                    review |-> IF questionable_count > 0
                                 THEN <<questionable_count>> ELSE <<>>,
                    min_length |-> IF args.min_length > DEFAULT_MIN_LENGTH
                                     THEN <<args.min_length>> ELSE <<>>] >>
  /\ pc' = "done"
  /\ exit_status' = 0
  /\ UNCHANGED <<tiles, source, all_words, valid_words, organized, num_tiles, display,
                 counts, total_found, questionable_count, err>>
  /\ UNCHANGED <<input_vars, pure_vars>>

Next ==
  \/ AcquireManual
  \/ AcquireImage
  \/ AcquireDefault
  \/ LoadDictionary
  \/ Search
  \/ PresentGroup
  \/ SkipGroup
  \/ Summary

Spec == Init /\ [][Next]_vars

(***************************************************************************)
(* find_combinations and classify_word applied alone to bounded inputs.    *)
(***************************************************************************)
\* Tiles "la", "te", "l"; a list may repeat a tile and may be empty.
GenTilePool == { <<"l","a">>, <<"t","e">>, <<"l">> }
GenTileLists == SeqsUpTo(GenTilePool, MaxGenTiles)

InitGen ==
  /\ pc = "fc_call"
  /\ fc_tiles \in GenTileLists
  /\ fc_max_length \in 1..MaxGenLength
  /\ fc_results = <<>>
  /\ cw_word = <<>> /\ cw_tags = <<>>
  /\ MainIdle

CallFindCombinations ==
  /\ pc = "fc_call"
  /\ fc_results' = find_combinations(fc_tiles, fc_max_length)
  /\ pc' = "fc_return"
  /\ UNCHANGED <<fc_tiles, fc_max_length, cw_word, cw_tags>>
  /\ UNCHANGED <<input_vars, result_vars, source, tiles, all_words, valid_words, err,
                 exit_status>>

NextGen == CallFindCombinations

SpecGen == InitGen /\ [][NextGen]_vars

\* Letters of the words given to classify_word: two vowels, two consonants, y.
WordLetters == {"a", "o", "c", "r", "y"}
\* "rec", "cap", "journal"
NamedWords == { <<"r","e","c">>, <<"c","a","p">>, <<"j","o","u","r","n","a","l">> }
ClassifyWords == (SeqsUpTo(WordLetters, MaxWordLen) \ {<<>>}) \cup NamedWords

InitClassify ==
  /\ pc = "cw_call"
  /\ cw_word \in ClassifyWords
  /\ cw_tags = <<>>
  /\ fc_tiles = <<>> /\ fc_max_length = DEFAULT_MAX_LENGTH /\ fc_results = <<>>
  /\ MainIdle

CallClassifyWord ==
  /\ pc = "cw_call"
  /\ cw_tags' = classify_word(cw_word)
  /\ pc' = "cw_return"
  /\ UNCHANGED <<cw_word, fc_tiles, fc_max_length, fc_results>>
  /\ UNCHANGED <<input_vars, result_vars, source, tiles, all_words, valid_words, err,
                 exit_status>>

NextClassify == CallClassifyWord

SpecClassify == InitClassify /\ [][NextClassify]_vars

(***************************************************************************)
(* Vocabulary of the properties.                                           *)
(***************************************************************************)
RECURSIVE Concat(_)
\* The in-order concatenation of a sequence of strings.
Concat(strs) == IF strs = <<>> THEN <<>> ELSE Head(strs) \o Concat(Tail(strs))

RECURSIVE SumLen(_)
SumLen(strs) == IF strs = <<>> THEN 0 ELSE Len(Head(strs)) + SumLen(Tail(strs))

RECURSIVE Fact(_)
Fact(n) == IF n <= 0 THEN 1 ELSE n * Fact(n - 1)

RECURSIVE SumTo(_, _)
\* f[1] + ... + f[n]
SumTo(f, n) == IF n = 0 THEN 0 ELSE f[n] + SumTo(f, n - 1)

Min(a, b) == IF a < b THEN a ELSE b

\* The orderings of r distinct positions of a list of n tiles.
Groupings(r, n) ==
  {p \in [1..r -> 1..n] : \A i \in 1..r : \A j \in 1..r : i < j => p[i] # p[j]}
TilesAt(tls, p) == [i \in 1..Len(p) |-> tls[p[i]]]
WordOf(tls, p) == Concat(TilesAt(tls, p))

\* Position tuples of one length in lexicographic order.
PosLeq(p, q) ==
  \/ p = q
  \/ \E k \in 1..Len(p) : p[k] < q[k] /\ \A i \in 1..(k - 1) : p[i] = q[i]
\* The grouping of S generated first.
First(S) == CHOOSE p \in S : \A q \in S : PosLeq(p, q)

GroupSizes == 1..DEFAULT_MAX_LENGTH
\* The groupings of r tiles of this run whose word is long enough and in the
\* filtered lexicon.
Qualifying(r) ==
  {p \in Groupings(r, Len(tiles)) :
     LET w == WordOf(tiles, p) IN Len(w) >= args.min_length /\ w \in valid_words}
ShownWords(r) == {display[r][i][2] : i \in 1..Len(display[r])}
Tagged(entry) == entry[3] # <<>>

(***************************************************************************)
(* Properties.                                                             *)
(***************************************************************************)

\* C1: find_combinations(tiles, K) with N tiles returns exactly the sum over
\* r = 1..min(K, N) of N!/(N-r)! candidates (none when N = 0, nothing for r > N),
\* and each candidate's word is the in-order concatenation of its grouping's tiles,
\* its length the sum of their lengths.
C1_CountAndWords ==
  pc = "fc_return" =>
    LET N == Len(fc_tiles)
        K == fc_max_length
        terms == [r \in 1..Min(K, N) |-> Fact(N) \div Fact(N - r)]
    IN /\ Len(fc_results) = SumTo(terms, Min(K, N))
       /\ \A k \in 1..Len(fc_results) :
            LET combo == fc_results[k][1]
                word == fc_results[k][2]
            IN /\ Len(combo) \in 1..Min(K, N)
               /\ \E p \in Groupings(Len(combo), N) : combo = TilesAt(fc_tiles, p)
               /\ word = Concat(combo)
               /\ Len(word) = SumLen(combo)

\* C1 witness: a call with a repeated tile and more sizes than tiles has returned.
C1_Witness ==
  /\ pc = "fc_return"
  /\ Len(fc_tiles) = 2
  /\ fc_tiles[1] = fc_tiles[2]
  /\ fc_max_length > Len(fc_tiles)
  /\ Len(fc_results) = 4

\* C2: the words shown in the group of r tiles are exactly the words of the
\* groupings of r distinct positions that are at least the minimum long and in the
\* filtered lexicon.
C2_GroupsExact ==
  pc = "done" =>
    \A r \in GroupSizes :
      ShownWords(r) = {WordOf(tiles, p) : p \in Qualifying(r)}

\* C2 witness: a finished run that shows a word and has dropped a lexicon word for
\* its length and a candidate for not being in the lexicon.
C2_Witness ==
  /\ pc = "done"
  /\ source = "manual"
  /\ \E r \in GroupSizes : display[r] # <<>>
  /\ \E i \in 1..Len(tiles) : tiles[i] \in valid_words /\ Len(tiles[i]) < args.min_length
  /\ \E i \in 1..Len(tiles) : tiles[i] \notin valid_words

\* C3: in each group every word has one entry, and its witness is the first grouping
\* of that size, in lexicographic order of positions, that gives the word; also when
\* tiles repeat.
C3_FirstWitnessInGroup ==
  pc = "done" =>
    \A r \in GroupSizes :
      LET qualifying == Qualifying(r)
      IN \A i \in 1..Len(display[r]) :
           LET w == display[r][i][2]
               giving == {p \in qualifying : WordOf(tiles, p) = w}
           IN /\ \A j \in 1..Len(display[r]) : display[r][j][2] = w => j = i
              /\ giving # {}
              /\ display[r][i][1] = TilesAt(tiles, First(giving))

\* C3 witness: the run of tiles "la", "la" with "lala" in the lexicon has finished:
\* both orders of the two tiles give the word, and the group of two shows it once.
C3_Witness ==
  /\ pc = "done"
  /\ tiles = << <<"l","a">>, <<"l","a">> >>
  /\ Cardinality(Qualifying(2)) = 2
  /\ display[2] = << << tiles, <<"l","a","l","a">>, << >> >> >>
  /\ counts[2] = <<1, 0>>

\* The qualifying groupings of every size, each with its size.
QualifyingBySize == UNION {{<<r, p>> : p \in Qualifying(r)} : r \in GroupSizes}
\* The entries shown, each as <<group, index>>.
Shown == UNION {{<<r, i>> : i \in 1..Len(display[r])} : r \in GroupSizes}

\* C4 as claimed: a word that several groupings give, of one size or of several, has
\* exactly one entry in the whole result, the grouping generated first (the smallest
\* size first, then positions in input order).
C4_OneEntryOverall ==
  pc = "done" =>
    LET giving == QualifyingBySize
        shown == Shown
    IN \A g \in giving :
         LET w == WordOf(tiles, g[2])
             same == {h \in giving : WordOf(tiles, h[2]) = w}
             first == CHOOSE h \in same :
                        \A k \in same :
                          h[1] < k[1] \/ (h[1] = k[1] /\ PosLeq(h[2], k[2]))
             entries == {e \in shown : display[e[1]][e[2]][2] = w}
         IN /\ Cardinality(entries) = 1
            /\ \A e \in entries :
                 e[1] = first[1] /\ display[e[1]][e[2]][1] = TilesAt(tiles, first[2])

\* C4 amended: a word that several groupings give has exactly one entry in each
\* group whose size has a grouping giving it, and none elsewhere; the entry of a
\* group is the grouping of that size generated first.  A word that groupings of
\* several sizes give therefore has one entry for each of these sizes.
C4_OneEntryPerSize ==
  pc = "done" =>
    LET giving == QualifyingBySize
        shown == Shown
    IN /\ \A e \in shown :
            \E g \in giving : g[1] = e[1] /\ WordOf(tiles, g[2]) = display[e[1]][e[2]][2]
       /\ \A g \in giving :
            LET w == WordOf(tiles, g[2])
                same == {h \in giving : WordOf(tiles, h[2]) = w}
                sizes == {h[1] : h \in same}
                entries == {e \in shown : display[e[1]][e[2]][2] = w}
            IN /\ Cardinality(entries) = Cardinality(sizes)
               /\ {e[1] : e \in entries} = sizes
               /\ \A e \in entries :
                    LET of_size == {h[2] : h \in {k \in same : k[1] = e[1]}}
                    IN display[e[1]][e[2]][1] = TilesAt(tiles, First(of_size))

\* C4 witness: a finished run shows one word in two groups.
C4_Witness ==
  /\ pc = "done"
  /\ source = "manual"
  /\ \E r1 \in GroupSizes : \E r2 \in GroupSizes :
       r1 < r2 /\ ShownWords(r1) \cap ShownWords(r2) # {}

VOWELS == {"a", "e", "i", "o", "u"}

\* classify_word has tagged word exactly when it should under the rule: at most
\* three characters, every one a letter other than a, e, i, o, u.
TaggedByRule ==
  LET short_no_vowel ==
        /\ Len(cw_word) <= 3
        /\ \A i \in 1..Len(cw_word) : c_islower(cw_word[i]) /\ cw_word[i] \notin VOWELS
  IN cw_tags = IF short_no_vowel THEN << "abbreviation" >> ELSE << >>

\* C5 as claimed: classify_word gives a lowercase alphabetic word the tag
\* "abbreviation" exactly when it has at most three characters, every one a letter
\* other than a, e, i, o, u, and no tag otherwise; so "rec" is tagged, "cap" and
\* "journal" are not.
C5_AbbreviationTagRecTagged ==
  pc = "cw_return" =>
    /\ TaggedByRule
    /\ cw_word = <<"r","e","c">> => cw_tags = << "abbreviation" >>
    /\ cw_word \in { <<"c","a","p">>, <<"j","o","u","r","n","a","l">> } => cw_tags = << >>

\* C5 amended: classify_word gives a lowercase alphabetic word the tag
\* "abbreviation" exactly when it has at most three characters, every one a letter
\* other than a, e, i, o, u, and no tag otherwise; so "rec", with its e, is not
\* tagged, and neither are "cap" and "journal".
C5_AbbreviationTag ==
  pc = "cw_return" =>
    /\ TaggedByRule
    /\ cw_word \in NamedWords => cw_tags = << >>

\* C5 witness: a three-letter word without a vowel, with y, has been tagged.
C5_Witness ==
  /\ pc = "cw_return"
  /\ cw_word = <<"c", "r", "y">>
  /\ cw_tags = << "abbreviation" >>

\* C6: in every group as shown, no tagged word comes before an untagged one, and
\* among the untagged words and among the tagged words the words strictly ascend
\* in case-sensitive lexicographic order.
C6_DisplayOrder ==
  \A r \in GroupSizes :
    \A i \in 1..Len(display[r]) : \A j \in 1..Len(display[r]) :
      i < j =>
        /\ ~(Tagged(display[r][i]) /\ ~Tagged(display[r][j]))
        /\ (Tagged(display[r][i]) = Tagged(display[r][j])
              => str_lt(display[r][i][2], display[r][j][2]))

\* C6 witness: a group shows an untagged word before a tagged word that is the
\* lesser string, two untagged words and two tagged words, and the organizer had
\* them in another order.
C6_Witness ==
  \E r \in GroupSizes :
    /\ \E i \in 1..Len(display[r]) : \E j \in 1..Len(display[r]) :
         /\ i < j
         /\ ~Tagged(display[r][i]) /\ Tagged(display[r][j])
         /\ str_lt(display[r][j][2], display[r][i][2])
    /\ \E i \in 1..Len(display[r]) : \E j \in 1..Len(display[r]) :
         i < j /\ ~Tagged(display[r][i]) /\ ~Tagged(display[r][j])
    /\ \E i \in 1..Len(display[r]) : \E j \in 1..Len(display[r]) :
         i < j /\ Tagged(display[r][i]) /\ Tagged(display[r][j])
    /\ display[r] # organized[r]

\* C7: no word of the profanity blocklist and no dictionary entry with a
\* non-alphabetic character is shown in any group, or kept by the organizer, even
\* when the dictionary has it and tiles give it.
C7_NeverReported ==
  \A r \in GroupSizes :
    /\ \A i \in 1..Len(display[r]) :
         /\ display[r][i][2] \notin profanity
         /\ \A k \in 1..Len(display[r][i][2]) : c_isalpha(display[r][i][2][k])
    /\ \A i \in 1..Len(organized[r]) :
         /\ organized[r][i][2] \notin profanity
         /\ \A k \in 1..Len(organized[r][i][2]) : c_isalpha(organized[r][i][2][k])

\* C7 witness: a finished run whose dictionary holds a blocklist word and an entry
\* with a digit, each of them a tile, and that shows another word.
C7_Witness ==
  /\ pc = "done"
  /\ source = "manual"
  /\ \E i \in 1..Len(tiles) : tiles[i] \in all_words /\ tiles[i] \in profanity
  /\ \E i \in 1..Len(tiles) :
       tiles[i] \in all_words /\ \E k \in 1..Len(tiles[i]) : ~c_isalpha(tiles[i][k])
  /\ \E r \in GroupSizes : display[r] # <<>>

\* The dictionary file gives no lexicon: the download fails, the file is missing or
\* cannot be read, or it holds no word of two characters.
NoLexicon(f) ==
  \/ ~f.cached /\ f.download = "fail"
  \/ f.open # "ok"
  \/ \A line \in f.lines : \A i \in 1..Len(line) : \A j \in 1..Len(line) :
       i < j => c_isspace(line[i]) \/ c_isspace(line[j])

\* C8: when loading the dictionary gives an empty lexicon the run ends with a
\* non-zero exit status before the search and before any group or summary; the
\* search and the presentation are reached with a non-empty lexicon only.
C8_NoLexiconIsFatal ==
  /\ pc \in {"search", "present", "summary", "done"} => all_words # {} /\ ~NoLexicon(fs)
  /\ (NoLexicon(fs) /\ pc \notin {"start", "load"}) =>
       /\ pc = "exit"
       /\ exit_status > 0
       /\ valid_words = {} /\ organized = NoGroups /\ num_tiles = 0
       /\ display = NoGroups /\ counts = NoGroups /\ summary = <<>>

\* C8 witness: the download has failed and the run has ended on it.
C8_Witness ==
  /\ pc = "exit"
  /\ ~fs.cached /\ fs.download = "fail"
  /\ err = "Error: Could not load TWL06 dictionary. Exiting."
  /\ exit_status = 1

LowercaseWord(t) == Len(t) >= 1 /\ \A k \in 1..Len(t) : c_islower(t[k])
\* The tile comes from a row of confidence 70 or more without an uppercase letter:
\* it is the row's letters.
FromGoodRow(t) ==
  \E j \in 1..Len(env.rows) :
    LET row == env.rows[j]
    IN /\ ~row.short
       /\ float(row.conf_str).ok /\ float(row.conf_str).value >= 70
       /\ \A k \in 1..Len(row.text) : ~c_isupper(row.text[k])
       /\ t = SelectSeq(row.text, c_islower)
\* t is the argument lowercased, without the whitespace around it.
LoweredAndTrimmed(t, arg) ==
  /\ \A k \in 1..Len(t) : ~c_isupper(t[k])
  /\ t # <<>> => ~c_isspace(t[1]) /\ ~c_isspace(t[Len(t)])
  /\ \E a \in 0..Len(arg) :
       /\ \A k \in 1..a : c_isspace(arg[k])
       /\ \A k \in (a + Len(t) + 1)..Len(arg) : c_isspace(arg[k])
       /\ a + Len(t) <= Len(arg)
       /\ \A k \in 1..Len(t) :
            t[k] = arg[a + k] \/ (c_isupper(arg[a + k]) /\ t[k] = c_lower(arg[a + k]))
HandedOver == pc \in {"search", "present", "summary", "done"}

\* C9 as claimed: on every path every tile handed to find_combinations is a
\* non-empty string of lowercase letters; from OCR it also has two letters or more
\* and comes from a token of confidence 70 or more without an uppercase letter.
C9_TilesLowercaseAlpha ==
  HandedOver =>
    /\ source \in {"manual", "image", "default"}
    /\ \A i \in 1..Len(tiles) : LowercaseWord(tiles[i])
    /\ source = "image" =>
         \A i \in 1..Len(tiles) : Len(tiles[i]) >= 2 /\ FromGoodRow(tiles[i])

\* C9 amended: from OCR and from the demo set every tile handed to
\* find_combinations is a non-empty string of lowercase letters, from OCR also of
\* two letters or more and from a token of confidence 70 or more without an
\* uppercase letter; a --tiles argument is handed over lowercased and without the
\* whitespace around it, whatever else it holds: such a tile has no uppercase letter
\* and no whitespace at its ends, and may hold other characters.
C9_TilesAsAcquired ==
  HandedOver =>
    /\ source \in {"manual", "image", "default"}
    /\ source # "manual" => \A i \in 1..Len(tiles) : LowercaseWord(tiles[i])
    /\ source = "image" =>
         \A i \in 1..Len(tiles) : Len(tiles[i]) >= 2 /\ FromGoodRow(tiles[i])
    /\ source = "default" => tiles = DEFAULT_TILES
    /\ source = "manual" =>
         /\ Len(tiles) = Len(args.tiles)
         /\ \A i \in 1..Len(tiles) : LoweredAndTrimmed(tiles[i], args.tiles[i])

\* C9 witness: tiles typed with an uppercase letter and a space, and with a digit,
\* have been handed over.
C9_Witness ==
  /\ pc = "search"
  /\ source = "manual"
  /\ \E i \in 1..Len(tiles) : tiles[i] # args.tiles[i]
  /\ \E i \in 1..Len(tiles) : ~LowercaseWord(tiles[i])

\* C10: when the summary is printed, the total of words found is the number of
\* entries shown over the four groups, and the number of words needing review is
\* the sum of the groups' "may need review" numbers and the number of shown entries
\* with a tag; without a matching word nothing is shown and both are zero.
C10_SummaryCounts ==
  pc = "done" =>
    LET shown == [r \in GroupSizes |-> Len(display[r])]
        tagged == [r \in GroupSizes |->
                     Cardinality({i \in 1..Len(display[r]) : Tagged(display[r][i])})]
        printed == [r \in GroupSizes |-> IF counts[r] = <<>> THEN 0 ELSE counts[r][1]]
        review == [r \in GroupSizes |-> IF counts[r] = <<>> THEN 0 ELSE counts[r][2]]
        all_tagged == SumTo(tagged, DEFAULT_MAX_LENGTH)
    IN /\ Len(summary) = 1
       /\ summary[1].total = SumTo(shown, DEFAULT_MAX_LENGTH)
       /\ summary[1].total = SumTo(printed, DEFAULT_MAX_LENGTH)
       /\ summary[1].review = IF all_tagged > 0 THEN <<all_tagged>> ELSE <<>>
       /\ questionable_count = all_tagged
       /\ SumTo(review, DEFAULT_MAX_LENGTH) = all_tagged
       /\ \A r \in GroupSizes : printed[r] = shown[r] /\ review[r] = tagged[r]
       /\ (\A r \in GroupSizes : organized[r] = <<>>) =>
            /\ display = NoGroups
            /\ summary[1].total = 0
            /\ questionable_count = 0

\* C10 witness: a summary over two groups, with a tagged word, after the organizer
\* kept one word twice.
C10_Witness ==
  /\ pc = "done"
  /\ summary[1].total >= 2
  /\ summary[1].review # <<>>
  /\ Cardinality({r \in GroupSizes : display[r] # <<>>}) >= 2
  /\ \E r \in GroupSizes : Len(organized[r]) > Len(display[r])

====
